---- MODULE Spec2Model ----
(***************************************************************************)
(* A model of edit4config.EditConfig (src/src/edit4config/edit4config.py). *)
(*                                                                         *)
(* A Python str is a sequence of one-character strings, so that strip,     *)
(* split, join, startswith and re.match are computed character by          *)
(* character.  A record of self.cwp is [path, value, obj]: path and value  *)
(* are the two str of the inner Python list, obj is the identity of that   *)
(* inner list (two positions of self.cwp may hold the same list object).   *)
(*                                                                         *)
(* Regular expressions are those made of literal characters and ".", for  *)
(* which re.match is a prefix match and re.sub a left-to-right rewrite.    *)
(* Every call is one action: op records the call and its arguments, pre    *)
(* the records before it, ret its return value, raised the exception it    *)
(* ended with ("NoReturn" when a restart-from-zero loop is still finding   *)
(* matches after MaxPasses scans).  SpecLoop follows the while loops of    *)
(* the delete and replace calls one pass per step instead.                 *)
(***************************************************************************)
EXTENDS Integers, Sequences, FiniteSets, TLC

VARIABLES config_text, step_space, cwp, op, pre, ret, raised

vars == <<config_text, step_space, cwp, op, pre, ret, raised>>

----------------------------------------------------------------------------
(* Bounds of the checked instances.                                        *)

\* lines of a configuration text given to the constructor
MaxLines == 4
\* scans of a restart-from-zero replacement loop that are followed
MaxPasses == 8

----------------------------------------------------------------------------
(* Python str and list primitives.                                         *)

NL == "\n"
TAB == "\t"

\* sep: str = ','
sep == ","

\* comment_tuple, as the docstring gives it for Nokia SROS, one prefix kept
comment_tuple == { <<"#">> }

IsWs(c) == c \in {" ", TAB, NL}

Last(s) == s[Len(s)]
Front(s) == SubSeq(s, 1, Len(s) - 1)

RECURSIVE lstrip(_)
lstrip(s) == IF s # <<>> /\ IsWs(Head(s)) THEN lstrip(Tail(s)) ELSE s

RECURSIVE rstrip(_)
rstrip(s) == IF s # <<>> /\ IsWs(Last(s)) THEN rstrip(Front(s)) ELSE s

strip(s) == lstrip(rstrip(s))

startswith(s, p) == Len(p) <= Len(s) /\ SubSeq(s, 1, Len(p)) = p

\* line.startswith(comment_tuple)
IsComment(line) == \E p \in comment_tuple : startswith(line, p)

\* ' ' * n
RECURSIVE Spaces(_)
Spaces(n) == IF n <= 0 THEN <<>> ELSE <<" ">> \o Spaces(n - 1)

\* s.count(c) for a one-character c
count(s, c) == Cardinality({i \in 1..Len(s) : s[i] = c})

\* s.split(c) for a one-character c: always at least one segment
RECURSIVE split(_, _)
split(s, c) ==
    IF \A i \in 1..Len(s) : s[i] # c
    THEN <<s>>
    ELSE LET i == CHOOSE k \in 1..Len(s) :
                      s[k] = c /\ \A j \in 1..(k - 1) : s[j] # c
         IN  <<SubSeq(s, 1, i - 1)>> \o split(SubSeq(s, i + 1, Len(s)), c)

\* c.join(list) for a one-character c
RECURSIVE join(_, _)
join(list, c) ==
    IF list = <<>> THEN <<>>
    ELSE IF Len(list) = 1 THEN list[1]
    ELSE list[1] \o <<c>> \o join(Tail(list), c)

\* s.splitlines(): the segments between newlines, without a last empty one
splitlines(s) ==
    LET parts == split(s, NL)
    IN  IF Last(parts) = <<>> THEN Front(parts) ELSE parts

\* list.index(x): the first position holding x (1-based here)
index(list, x) == CHOOSE k \in 1..Len(list) :
                      list[k] = x /\ \A j \in 1..(k - 1) : list[j] # x

\* len(line) - len(line.lstrip())
Width(line) == Len(line) - Len(lstrip(line))

\* sorted(keys) of a set of integers
RECURSIVE sorted(_)
sorted(S) ==
    IF S = {} THEN <<>>
    ELSE LET m == CHOOSE x \in S : \A y \in S : x <= y
         IN  <<m>> \o sorted(S \ {m})

----------------------------------------------------------------------------
(* PathIndexer: _config_with_parent, _ec_text_convert, cli_convert.        *)

\* the raise SystemError of _config_with_parent
HasTab(text) == \E i \in 1..Len(text) : text[i] = TAB

\* config_list = [i.rstrip() for i in config_text.splitlines() if i.strip() != '']
ConfigList(text) ==
    LET kept == SelectSeq(splitlines(text), LAMBDA i : strip(i) # <<>>)
    IN  [k \in 1..Len(kept) |-> rstrip(kept[k])]

\* the "path_dict delete" while loop run after line iline (1-based): the
\* first non-comment line after it decides whether space is dropped
RECURSIVE path_dict_delete(_, _, _, _, _)
path_dict_delete(config_list, iline, after_n, space, path_dict) ==
    IF iline - 1 = Len(config_list) - after_n
    THEN path_dict
    ELSE LET after_line == config_list[iline + after_n]
         IN  IF IsComment(after_line)
             THEN path_dict_delete(config_list, iline, after_n + 1, space, path_dict)
             ELSE IF space > Width(after_line)
                  THEN [k \in (DOMAIN path_dict) \ {space} |-> path_dict[k]]
                  ELSE path_dict

\* the key_space of line_path_list's comprehension; the faulty variant keeps
\* the line's own width (<= for <)
PathKeysMutant(path_dict, space) == {k \in DOMAIN path_dict : k <= space}
PathKeys(path_dict, space) == {k \in DOMAIN path_dict : k < space}

\* line_path_list = [path_dict[key_space] for key_space in sorted(path_dict)
\*                   if key_space < space]
LinePathList(path_dict, space) ==
    LET keys == sorted(PathKeys(path_dict, space))
    IN  [k \in 1..Len(keys) |-> path_dict[keys[k]]]

\* cwp_list.append([path, line]); the faulty variant stores the stripped line
NewRecordMutant(cwp_list, path, line) == Append(cwp_list, <<path, strip(line)>>)
NewRecord(cwp_list, path, line) == Append(cwp_list, <<path, line>>)

\* the for loop of _config_with_parent from line iline on
RECURSIVE cwp_loop(_, _, _, _, _)
cwp_loop(config_list, iline, path_dict, line_path_list, cwp_list) ==
    IF iline > Len(config_list) THEN cwp_list
    ELSE
    LET line == config_list[iline]
    IN  IF IsComment(line)
        THEN IF line_path_list # <<>>
             THEN cwp_loop(config_list, iline + 1, path_dict, line_path_list,
                           Append(cwp_list, <<join(line_path_list, sep), line>>))
             ELSE IF index(config_list, line) - 1 >= 1
                     /\ ~IsComment(config_list[index(config_list, line) - 1])
                  THEN LET before_line == config_list[index(config_list, line) - 1]
                       IN  cwp_loop(config_list, iline + 1, path_dict,
                                    <<before_line>>,
                                    NewRecord(cwp_list, before_line, line))
                  ELSE cwp_loop(config_list, iline + 1, path_dict, line_path_list,
                                NewRecord(cwp_list, <<>>, line))
        ELSE LET space == Width(line)
                 set   == [k \in (DOMAIN path_dict) \cup {space} |->
                              IF k = space THEN strip(line) ELSE path_dict[k]]
                 lpl   == LinePathList(set, space)
             IN  cwp_loop(config_list, iline + 1,
                          path_dict_delete(config_list, iline, 1, space, set),
                          lpl,
                          NewRecord(cwp_list, join(lpl, sep), line))

\* _config_with_parent for a tab-free text: the list of [path, line]
config_with_parent(text) ==
    cwp_loop(ConfigList(text), 1, <<>>, <<>>, <<>>)

\* fresh inner list objects base+1.. for a list of [path, value]
Objects(list, base) ==
    [k \in 1..Len(list) |->
        [path |-> list[k][1], value |-> list[k][2], obj |-> base + k]]

\* the [path, value] a record compares by (Python list equality)
PV(r) == <<r.path, r.value>>
Recs(c) == [k \in 1..Len(c) |-> PV(c[k])]

\* the restored indentation of _ec_text_convert: step_space * space_n
SpaceN(path, value) ==
    IF IsComment(value) THEN 0 ELSE count(path, sep) + 1

\* one element of line_path_value_list and its result_list entry
EcLine(i, step) ==
    LET parts == split(i, sep)
        path  == join(Front(parts), sep)
        value == Last(parts)
    IN  <<path, Spaces(step * SpaceN(path, value)) \o strip(value)>>

\* _ec_text_convert: cwp-text to a list of [path, value]
ec_text_convert(text, step) ==
    LET line_list == splitlines(strip(text))
    IN  [k \in 1..Len(line_list) |-> EcLine(line_list[k], step)]

\* cwp_to_text: '\n'.join([i[1] for i in self.cwp])
cwp_to_text(c) == join([k \in 1..Len(c) |-> c[k].value], NL)

\* the merged line cli_convert writes for one record
CompactLine(r) == r.path \o <<sep>> \o strip(r.value)

\* cli_convert's list_merge for the records of c
cli_convert(c) ==
    LET kept == SelectSeq(c, LAMBDA r : strip(r.path) # <<>>)
    IN  join([k \in 1..Len(kept) |-> CompactLine(kept[k])], NL)

----------------------------------------------------------------------------
(* SequenceEditor: matching.                                               *)

Min(a, b) == IF a < b THEN a ELSE b

\* re.match(pattern, s) for a pattern of literal characters and ".": the
\* pattern must match a prefix of s, "." matching any one character
ReMatch(pattern, s) ==
    /\ Len(pattern) <= Len(s)
    /\ \A i \in 1..Len(pattern) : pattern[i] = "." \/ pattern[i] = s[i]

\* re.sub(pattern, repl, s) for such a pattern and a repl without group
\* references: every non-overlapping match, leftmost first, becomes repl; the
\* empty pattern matches before every character and at the end
RECURSIVE ReSub(_, _, _)
ReSub(pattern, repl, s) ==
    IF pattern = <<>>
    THEN IF s = <<>> THEN repl
         ELSE repl \o <<Head(s)>> \o ReSub(pattern, repl, Tail(s))
    ELSE IF s = <<>> THEN <<>>
         ELSE IF ReMatch(pattern, s)
              THEN repl \o ReSub(pattern, repl, SubSeq(s, Len(pattern) + 1, Len(s)))
              ELSE <<Head(s)>> \o ReSub(pattern, repl, Tail(s))

\* self.cwp[iline:iline+n] with iline 1-based: the slice stops at the end
Slice(c, iline, n) == SubSeq(c, iline, Min(iline + n - 1, Len(c)))

\* del self.cwp[iline:iline+n]
Del(c, iline, n) == SubSeq(c, 1, iline - 1) \o SubSeq(c, iline + n, Len(c))

\* self.cwp[at:at] = block for a 0-based at, which a slice clamps to the end
Insert(c, at, block) ==
    LET k == Min(at, Len(c))
    IN  SubSeq(c, 1, k) \o block \o SubSeq(c, k + 1, Len(c))

\* the largest object identity in use
MaxObj(c) ==
    IF c = <<>> THEN 0
    ELSE CHOOSE m \in {c[k].obj : k \in 1..Len(c)} :
             \A k \in 1..Len(c) : c[k].obj <= m

\* re.match(list[0], vline[0]) and re.match(list[1], vline[1])
RecMatch(pat, r) == ReMatch(pat[1], r.path) /\ ReMatch(pat[2], r.value)

\* all(re.match(i[0], j[0]) for i, j in zip(list, part)) and the same for
\* [1]: zip stops at the shorter of the two
ZipLen(list, part) == Min(Len(list), Len(part))
ZipMatch(list, part) ==
    \A k \in 1..ZipLen(list, part) : RecMatch(list[k], part[k])

\* the test of the scan of delete_serial_lines, add_after_lines,
\* add_before_lines and replace_serial_lines at position iline: the regex
\* branch when regex_match and the first pattern line matches, else the
\* literal elif
SerialHit(c, iline, list, regex_match) ==
    IF regex_match /\ RecMatch(list[1], c[iline])
    THEN ZipMatch(list, Slice(c, iline, Len(list)))
    ELSE /\ PV(c[iline]) = list[1]
         /\ Recs(Slice(c, iline, Len(list))) = list

\* the positions the for loop would act at, and the first of them
SerialHits(c, list, regex_match) ==
    {i \in 1..Len(c) : SerialHit(c, i, list, regex_match)}

First(S) == CHOOSE x \in S : \A y \in S : x <= y

----------------------------------------------------------------------------
(* SequenceEditor: delete_serial_lines, delete_between_lines.              *)

\* "if not multiple_match: cont = False": whether the while loop scans
\* again; the faulty variant never does
RescanMutant(multiple_match) == FALSE
Rescan(multiple_match) == multiple_match

\* the while loop of delete_serial_lines: each pass deletes the first window
\* found and, under multiple_match, scans again from the start
RECURSIVE delete_serial_loop(_, _, _, _)
delete_serial_loop(c, delete_list, regex_match, multiple_match) ==
    LET hits == SerialHits(c, delete_list, regex_match)
    IN  IF hits = {} THEN c
        ELSE LET after == Del(c, First(hits), Len(delete_list))
             IN  IF Rescan(multiple_match)
                 THEN delete_serial_loop(after, delete_list, regex_match,
                                         multiple_match)
                 ELSE after

delete_serial_lines(c, text, step, regex_match, multiple_match) ==
    [c   |-> delete_serial_loop(c, ec_text_convert(text, step), regex_match,
                                multiple_match),
     exc |-> "none"]

\* the start_line the regex scan of delete_between_lines records: the first
\* start match, kept once set ("start_line is None and ..."); the faulty
\* variant overwrites it with every start match up to the first end match
StartLineMutant(c, start_with, end_with) ==
    LET ends == {j \in 1..Len(c) : RecMatch(end_with, c[j])
                    /\ \E i \in 1..j : RecMatch(start_with, c[i])}
        s    == {i \in 1..Len(c) : RecMatch(start_with, c[i])
                    /\ (ends # {} => i <= First(ends))}
    IN  IF s = {} THEN 0 ELSE CHOOSE i \in s : \A k \in s : k <= i
StartLine(c, start_with, end_with) ==
    LET s == {i \in 1..Len(c) : RecMatch(start_with, c[i])}
    IN  IF s = {} THEN 0 ELSE First(s)

\* the end_line of that scan: the first end match at or after start_line
EndLine(c, start_line, end_with) ==
    LET e == {j \in start_line..Len(c) : RecMatch(end_with, c[j])}
    IN  IF start_line = 0 \/ e = {} THEN 0 ELSE First(e)

\* the regex while loop of delete_between_lines
RECURSIVE delete_between_regex(_, _, _, _)
delete_between_regex(c, start_with, end_with, multiple_match) ==
    LET start_line == StartLine(c, start_with, end_with)
        end_line   == EndLine(c, start_line, end_with)
    IN  IF end_line = 0 THEN c
        ELSE LET after == Del(c, start_line, end_line - start_line + 1)
             IN  IF multiple_match
                 THEN delete_between_regex(after, start_with, end_with,
                                           multiple_match)
                 ELSE after

\* x in self.cwp, self.cwp.index(x) from position from on (0 when absent)
IndexFrom(c, from, x) ==
    LET s == {i \in from..Len(c) : PV(c[i]) = x}
    IN  IF s = {} THEN 0 ELSE First(s)

\* the literal while loop of delete_between_lines; list.index raises
\* ValueError when end_with is not in self.cwp[fi_line:]
RECURSIVE delete_between_literal(_, _, _, _)
delete_between_literal(c, start_with, end_with, multiple_match) ==
    LET fi_line == IndexFrom(c, 1, start_with)
        ei_line == IndexFrom(c, fi_line, end_with)
    IN  IF fi_line = 0 THEN [c |-> c, exc |-> "none"]
        ELSE IF ei_line = 0 THEN [c |-> c, exc |-> "ValueError"]
        ELSE LET after == Del(c, fi_line, ei_line - fi_line + 1)
             IN  IF multiple_match
                 THEN delete_between_literal(after, start_with, end_with,
                                             multiple_match)
                 ELSE [c |-> after, exc |-> "none"]

delete_between_lines(c, start_text, end_text, step, regex_match, multiple_match) ==
    LET start_with == ec_text_convert(start_text, step)[1]
        end_with   == ec_text_convert(end_text, step)[1]
    IN  IF regex_match
        THEN [c   |-> delete_between_regex(c, start_with, end_with, multiple_match),
              exc |-> "none"]
        ELSE delete_between_literal(c, start_with, end_with, multiple_match)

----------------------------------------------------------------------------
(* SequenceEditor: add_after_lines, add_before_lines.                      *)

\* all_after_line_numbers / all_before_line_numbers: the 0-based insertion
\* points recorded by the scan, offset past the window (len_after) or not (0)
LineNumbers(c, list, regex_match, multiple_match, offset) ==
    LET hits == SerialHits(c, list, regex_match)
        kept == IF multiple_match \/ hits = {} THEN hits ELSE {First(hits)}
        pos  == sorted(kept)
    IN  [k \in 1..Len(pos) |-> (pos[k] - 1) + offset]

\* exact_line = line + change_line_number
ExactLine(line, change_line_number) == line + change_line_number

\* the insertion loop: every recorded line number, shifted by what was
\* inserted before it, receives add_list (the same list objects each time)
RECURSIVE InsertAll(_, _, _, _)
InsertAll(c, line_numbers, change_line_number, add_list) ==
    IF line_numbers = <<>> THEN c
    ELSE InsertAll(Insert(c, ExactLine(Head(line_numbers), change_line_number),
                          add_list),
                   Tail(line_numbers),
                   change_line_number + Len(add_list),
                   add_list)

add_after_lines(c, add_text, after_text, step, regex_match, multiple_match) ==
    LET add_list   == Objects(ec_text_convert(add_text, step), MaxObj(c))
        after_list == ec_text_convert(after_text, step)
    IN  [c   |-> InsertAll(c, LineNumbers(c, after_list, regex_match,
                                           multiple_match, Len(after_list)),
                           0, add_list),
         exc |-> "none"]

add_before_lines(c, add_text, before_text, step, regex_match, multiple_match) ==
    LET add_list    == Objects(ec_text_convert(add_text, step), MaxObj(c))
        before_list == ec_text_convert(before_text, step)
    IN  [c   |-> InsertAll(c, LineNumbers(c, before_list, regex_match,
                                           multiple_match, 0),
                           0, add_list),
         exc |-> "none"]

----------------------------------------------------------------------------
(* SequenceEditor: replace_line, replace_serial_lines,                     *)
(* replace_between_lines, cwp_update, cwp_serial_check.                    *)

\* cwp_update: self.cwp = _config_with_parent('\n'.join(values), ...)
cwp_update(c) == Objects(config_with_parent(cwp_to_text(c)), 0)

\* an assignment through self.cwp[iline] changes the list object there, at
\* every position that holds it
SetObject(c, iline, path, value) ==
    [k \in 1..Len(c) |->
        IF c[k].obj = c[iline].obj
        THEN [path |-> path, value |-> value, obj |-> c[k].obj]
        ELSE c[k]]

\* the regex_backreference loop of replace_line from position iline on
RECURSIVE replace_backreference(_, _, _, _, _)
replace_backreference(c, iline, old_list, new_list, multiple_match) ==
    IF iline > Len(c) THEN c
    ELSE IF RecMatch(old_list, c[iline])
         THEN LET after == SetObject(c, iline,
                               ReSub(old_list[1], new_list[1], c[iline].path),
                               ReSub(old_list[2], new_list[2], c[iline].value))
              IN  IF multiple_match
                  THEN replace_backreference(after, iline + 1, old_list,
                                             new_list, multiple_match)
                  ELSE after
         ELSE replace_backreference(c, iline + 1, old_list, new_list,
                                    multiple_match)

\* all_replace_line of replace_line
AllReplaceLine(c, old_list, regex_match, multiple_match) ==
    LET hits == {i \in 1..Len(c) :
                    \/ regex_match /\ RecMatch(old_list, c[i])
                    \/ PV(c[i]) = old_list}
    IN  IF multiple_match \/ hits = {} THEN hits ELSE {First(hits)}

replace_line(c, old_text, new_text, step, regex_match, multiple_match, regex_backreference, replace_path) ==
    LET old_list == ec_text_convert(old_text, step)[1]
        new_list == ec_text_convert(new_text, step)[1]
        lines    == AllReplaceLine(c, old_list, regex_match, multiple_match)
        objs     == {c[i].obj : i \in lines}
    IN  [c |-> IF regex_backreference
               THEN replace_backreference(c, 1, old_list, new_list, multiple_match)
               ELSE IF replace_path
               THEN [k \in 1..Len(c) |->
                        IF k \in lines
                        THEN [path |-> new_list[1], value |-> new_list[2],
                              obj |-> MaxObj(c) + 1]
                        ELSE c[k]]
               ELSE [k \in 1..Len(c) |->
                        IF c[k].obj \in objs
                        THEN [c[k] EXCEPT !.value = new_list[2]]
                        ELSE c[k]],
         exc |-> "none"]

\* cwp_delete_before_part + replace_list + cwp_delete_after_part
Splice(c, iline, n, replace_list) ==
    SubSeq(c, 1, iline - 1) \o replace_list \o SubSeq(c, iline + n, Len(c))

\* the while loop of replace_serial_lines; passes counts the scans left
\* before the call is recorded as not returning
RECURSIVE replace_serial_loop(_, _, _, _, _, _)
replace_serial_loop(c, delete_list, replace_list, regex_match, multiple_match, passes) ==
    LET hits == SerialHits(c, delete_list, regex_match)
    IN  IF hits = {} THEN [c |-> c, exc |-> "none"]
        ELSE IF passes = 0 THEN [c |-> c, exc |-> "NoReturn"]
        ELSE LET after == Splice(c, First(hits), Len(delete_list), replace_list)
             IN  IF multiple_match
                 THEN replace_serial_loop(after, delete_list, replace_list,
                                          regex_match, multiple_match, passes - 1)
                 ELSE [c |-> after, exc |-> "none"]

\* "if regex_match: self.cwp_update()" once the loop has ended
UpdateIfRegex(r, regex_match) ==
    IF regex_match /\ r.exc = "none"
    THEN [c |-> cwp_update(r.c), exc |-> "none"]
    ELSE r

replace_serial_lines(c, old_text, new_text, step, regex_match, multiple_match, passes) ==
    LET delete_list  == ec_text_convert(old_text, step)
        replace_list == Objects(ec_text_convert(new_text, step), MaxObj(c))
    IN  UpdateIfRegex(replace_serial_loop(c, delete_list, replace_list,
                                          regex_match, multiple_match, passes),
                      regex_match)

\* the regex while loop of replace_between_lines
RECURSIVE replace_between_regex(_, _, _, _, _, _)
replace_between_regex(c, start_with, end_with, replace_list, multiple_match, passes) ==
    LET start_line == StartLine(c, start_with, end_with)
        end_line   == EndLine(c, start_line, end_with)
    IN  IF end_line = 0 THEN [c |-> c, exc |-> "none"]
        ELSE IF passes = 0 THEN [c |-> c, exc |-> "NoReturn"]
        ELSE LET after == Splice(c, start_line, end_line - start_line + 1,
                                 replace_list)
             IN  IF multiple_match
                 THEN replace_between_regex(after, start_with, end_with,
                                            replace_list, multiple_match,
                                            passes - 1)
                 ELSE [c |-> after, exc |-> "none"]

\* the literal while loop of replace_between_lines
RECURSIVE replace_between_literal(_, _, _, _, _, _)
replace_between_literal(c, start_with, end_with, replace_list, multiple_match, passes) ==
    LET fi_line == IndexFrom(c, 1, start_with)
        ei_line == IndexFrom(c, fi_line, end_with)
    IN  IF fi_line = 0 THEN [c |-> c, exc |-> "none"]
        ELSE IF ei_line = 0 THEN [c |-> c, exc |-> "ValueError"]
        ELSE IF passes = 0 THEN [c |-> c, exc |-> "NoReturn"]
        ELSE LET after == Splice(c, fi_line, ei_line - fi_line + 1, replace_list)
             IN  IF multiple_match
                 THEN replace_between_literal(after, start_with, end_with,
                                              replace_list, multiple_match,
                                              passes - 1)
                 ELSE [c |-> after, exc |-> "none"]

replace_between_lines(c, start_text, end_text, new_text, step, regex_match, multiple_match, passes) ==
    LET start_with   == ec_text_convert(start_text, step)[1]
        end_with     == ec_text_convert(end_text, step)[1]
        replace_list == Objects(ec_text_convert(new_text, step), MaxObj(c))
    IN  IF regex_match
        THEN UpdateIfRegex(replace_between_regex(c, start_with, end_with,
                                                 replace_list, multiple_match,
                                                 passes),
                           regex_match)
        ELSE replace_between_literal(c, start_with, end_with, replace_list,
                                     multiple_match, passes)

\* path_and_value_list of cwp_serial_check
PathAndValueList(text) ==
    LET kept == SelectSeq(splitlines(text), LAMBDA i : strip(i) # <<>>)
    IN  [k \in 1..Len(kept) |-> strip(kept[k])]

\* cwp_text_no_space of cwp_serial_check
CwpTextNoSpace(c) ==
    [k \in 1..Len(c) |-> c[k].path \o <<sep>> \o lstrip(c[k].value)]

\* the test cwp_serial_check makes at position iline
SerialCheckAt(lines, iline, list) ==
    /\ ReMatch(list[1], lines[iline])
    /\ LET part == Slice(lines, iline, Len(list))
       IN  \A k \in 1..ZipLen(list, part) : ReMatch(list[k], part[k])

cwp_serial_check(c, text) ==
    \E iline \in 1..Len(c) :
        SerialCheckAt(CwpTextNoSpace(c), iline, PathAndValueList(text))

----------------------------------------------------------------------------
(* Construction: EditConfig(config_text, step_space, comment_tuple).       *)

\* every str made of lines l1..ln, n <= len, joined by newlines
RECURSIVE LineSeqs(_, _)
LineSeqs(lines, len) ==
    IF len = 0 THEN {<<>>}
    ELSE LET shorter == LineSeqs(lines, len - 1)
         IN  shorter \cup {Append(t, l) : t \in {u \in shorter : Len(u) = len - 1},
                                          l \in lines}

Texts(lines, len) == {join(t, NL) : t \in LineSeqs(lines, len)}

\* the lines of the texts built: two tokens at three indentation widths, a
\* comment, a line with trailing whitespace, a whitespace-only line
BuildLines ==
    {Spaces(n) \o b : n \in 0..2, b \in {<<"a">>, <<"b">>}}
    \cup {<<"#", "c">>, <<"a", " ">>, <<" ">>}

NoCall == [name |-> "none"]

\* __post_init__ without start_line/end_line: self.cwp = _config_with_parent(...)
Constructed(text) ==
    /\ config_text = text
    /\ raised = IF HasTab(text) THEN "SystemError" ELSE "none"
    /\ cwp = IF HasTab(text) THEN <<>> ELSE Objects(config_with_parent(text), 0)
    /\ op = NoCall
    /\ pre = <<>>
    /\ ret = <<>>

Init ==
    /\ step_space = 1
    /\ \E text \in Texts(BuildLines, MaxLines) : Constructed(text)

\* a call is made on a constructed object that has made no call yet
Ready == raised = "none" /\ op.name = "none"

\* cwp_to_text()
CwpToText ==
    /\ Ready
    /\ op' = [name |-> "cwp_to_text"]
    /\ ret' = cwp_to_text(cwp)
    /\ pre' = cwp
    /\ UNCHANGED <<config_text, step_space, cwp, raised>>

\* cwp_update()
CwpUpdate ==
    /\ Ready
    /\ op' = [name |-> "cwp_update"]
    /\ cwp' = Objects(config_with_parent(cwp_to_text(cwp)), 0)
    /\ pre' = cwp
    /\ UNCHANGED <<config_text, step_space, ret, raised>>

\* cli_convert(config_text, comment_tuple, sep)
CliConvert ==
    /\ Ready
    /\ op' = [name |-> "cli_convert"]
    /\ ret' = cli_convert(Objects(config_with_parent(config_text), 0))
    /\ pre' = cwp
    /\ UNCHANGED <<config_text, step_space, cwp, raised>>

\* _ec_text_convert on the compact line of record k of self.cwp
EcTextConvert(k) ==
    /\ Ready
    /\ op' = [name |-> "ec_text_convert", k |-> k]
    /\ ret' = ec_text_convert(CompactLine(cwp[k]), step_space)
    /\ pre' = cwp
    /\ UNCHANGED <<config_text, step_space, cwp, raised>>

Next ==
    \/ CwpToText
    \/ CwpUpdate
    \/ CliConvert
    \/ \E k \in 1..Len(cwp) : EcTextConvert(k)

Spec == Init /\ [][Next]_vars

----------------------------------------------------------------------------
(* Edit calls on a constructed object.                                     *)

\* the lines of the texts edited: a top-level line and two one-step lines
EditLines == {<<"a">>, <<" ", "x">>, <<" ", "y">>}

\* the compact lines of edit requests: literal values and a "." pattern,
\* and a line with a path
PlainLines == {<<"x">>, <<"y">>, <<".">>}
CompactLines == PlainLines \cup {<<"a", sep, "x">>}

\* one-line blocks, and two-line blocks of plain lines
Blocks == CompactLines \cup (Texts(PlainLines, 2) \ {<<>>})

\* the block added, and the blocks put in place of a match
AddBlocks == {<<"x", NL, "y">>}
NewBlocks == {<<"x">>, <<"x", NL, "y">>}
NewLines == {<<"a", sep, "y">>}

\* the blocks given to cwp_serial_check, written against path + sep + value
CheckBlocks == Texts({<<sep, "x">>, <<sep, "y">>, <<".">>}, 2) \ {<<>>}

InitEdit ==
    /\ step_space = 1
    /\ \E text \in Texts(EditLines, MaxLines) : Constructed(text)

\* the call returns (or raises) with r.c as self.cwp
Called(call, r) ==
    /\ Ready
    /\ op' = call
    /\ pre' = cwp
    /\ cwp' = r.c
    /\ raised' = r.exc
    /\ UNCHANGED <<config_text, step_space, ret>>

DeleteSerialLines(text, regex_match, multiple_match) ==
    Called([name |-> "delete_serial_lines", lines |-> text,
            regex_match |-> regex_match, multiple_match |-> multiple_match],
           delete_serial_lines(cwp, text, step_space, regex_match, multiple_match))

DeleteBetweenLines(start, end, regex_match, multiple_match) ==
    Called([name |-> "delete_between_lines", start |-> start, end |-> end,
            regex_match |-> regex_match, multiple_match |-> multiple_match],
           delete_between_lines(cwp, start, end, step_space, regex_match,
                                multiple_match))

AddAfterLines(add, after, regex_match, multiple_match) ==
    Called([name |-> "add_after_lines", add |-> add, lines |-> after,
            regex_match |-> regex_match, multiple_match |-> multiple_match],
           add_after_lines(cwp, add, after, step_space, regex_match,
                           multiple_match))

AddBeforeLines(add, before, regex_match, multiple_match) ==
    Called([name |-> "add_before_lines", add |-> add, lines |-> before,
            regex_match |-> regex_match, multiple_match |-> multiple_match],
           add_before_lines(cwp, add, before, step_space, regex_match,
                            multiple_match))

ReplaceLine(old, new, regex_match, multiple_match, regex_backreference, replace_path) ==
    Called([name |-> "replace_line", lines |-> old, new |-> new,
            regex_match |-> regex_match, multiple_match |-> multiple_match,
            regex_backreference |-> regex_backreference,
            replace_path |-> replace_path],
           replace_line(cwp, old, new, step_space, regex_match, multiple_match,
                        regex_backreference, replace_path))

ReplaceSerialLines(old, new, regex_match, multiple_match) ==
    Called([name |-> "replace_serial_lines", lines |-> old, new |-> new,
            regex_match |-> regex_match, multiple_match |-> multiple_match],
           replace_serial_lines(cwp, old, new, step_space, regex_match,
                                multiple_match, MaxPasses))

ReplaceBetweenLines(start, end, new, regex_match, multiple_match) ==
    Called([name |-> "replace_between_lines", start |-> start, end |-> end,
            new |-> new,
            regex_match |-> regex_match, multiple_match |-> multiple_match],
           replace_between_lines(cwp, start, end, new, step_space, regex_match,
                                 multiple_match, MaxPasses))

CwpSerialCheck(text) ==
    /\ Ready
    /\ op' = [name |-> "cwp_serial_check", lines |-> text]
    /\ pre' = cwp
    /\ ret' = cwp_serial_check(cwp, text)
    /\ UNCHANGED <<config_text, step_space, cwp, raised>>

NextEdit ==
    \/ \E s \in CompactLines, e \in PlainLines, rm, mm \in BOOLEAN :
           DeleteBetweenLines(s, e, rm, mm)
    \/ \E s \in CompactLines, e \in PlainLines, n \in NewBlocks,
          rm, mm \in BOOLEAN :
           ReplaceBetweenLines(s, e, n, rm, mm)
    \/ \E t \in Blocks, rm, mm \in BOOLEAN : DeleteSerialLines(t, rm, mm)
    \/ \E a \in AddBlocks, t \in Blocks, rm, mm \in BOOLEAN :
           AddAfterLines(a, t, rm, mm)
    \/ \E a \in AddBlocks, t \in Blocks, rm, mm \in BOOLEAN :
           AddBeforeLines(a, t, rm, mm)
    \/ \E o \in CompactLines, n \in NewLines, rm, mm, br, rp \in BOOLEAN :
           ReplaceLine(o, n, rm, mm, br, rp)
    \/ \E o \in Blocks, n \in NewBlocks, rm, mm \in BOOLEAN :
           ReplaceSerialLines(o, n, rm, mm)
    \/ \E t \in CheckBlocks : CwpSerialCheck(t)

SpecEdit == InitEdit /\ [][NextEdit]_vars

----------------------------------------------------------------------------
(* _get_between_lines and the construction with start_line / end_line.     *)

\* the for loop of _get_between_lines from line iline on (0-based, as
\* enumerate counts); start_index is 0 until a start match is recorded and
\* "elif start_index and ..." reads it as a truth value
RECURSIVE get_between_loop(_, _, _, _, _)
get_between_loop(config_text_lines, iline, start_index, start_line, end_line) ==
    IF iline >= Len(config_text_lines) THEN <<>>
    ELSE LET line == config_text_lines[iline + 1]
         IN  IF ReMatch(start_line, line)
             THEN get_between_loop(config_text_lines, iline + 1, iline,
                                   start_line, end_line)
             ELSE IF start_index # 0 /\ ReMatch(end_line, line)
             THEN <<NL>>
                  \o join(SubSeq(config_text_lines, start_index + 1, iline + 1), NL)
                  \o <<NL>>
             ELSE get_between_loop(config_text_lines, iline + 1, start_index,
                                   start_line, end_line)

\* _get_between_lines(config_text, start_line, end_line): result_text
get_between_lines(text, start_line, end_line) ==
    get_between_loop(splitlines(text), 0, 0, start_line, end_line)

\* the lines of the texts filtered: a start line, an end line, an inner line
RegionLines == {<<"a">>, <<"b">>, <<" ", "c">>}

\* the patterns given as start_line and as end_line
StartPatterns == {<<"a">>, <<".">>}
EndPatterns == {<<"b">>, <<" ", ".">>}

InitRegion ==
    /\ step_space = 1
    /\ \E text \in Texts(RegionLines, MaxLines) : Constructed(text)

\* EditConfig._get_between_lines(config_text, start_line, end_line)
GetBetweenLines(start_line, end_line) ==
    /\ Ready
    /\ op' = [name |-> "get_between_lines", text |-> config_text,
              start_line |-> start_line, end_line |-> end_line]
    /\ ret' = get_between_lines(config_text, start_line, end_line)
    /\ pre' = cwp
    /\ UNCHANGED <<config_text, step_space, cwp, raised>>

\* __post_init__ of EditConfig(config_text, step_space, comment_tuple, sep,
\* start_line, end_line) with both patterns non-empty: the text is replaced
\* by its region before the records are built
PostInit(start_line, end_line) ==
    /\ Ready
    /\ op' = [name |-> "post_init", text |-> config_text,
              start_line |-> start_line, end_line |-> end_line]
    /\ config_text' = get_between_lines(config_text, start_line, end_line)
    /\ cwp' = Objects(config_with_parent(config_text'), 0)
    /\ pre' = cwp
    /\ UNCHANGED <<step_space, ret, raised>>

NextRegion ==
    \/ \E s \in StartPatterns, e \in EndPatterns : GetBetweenLines(s, e)
    \/ \E s \in StartPatterns, e \in EndPatterns : PostInit(s, e)

SpecRegion == InitRegion /\ [][NextRegion]_vars

----------------------------------------------------------------------------
(* replace_line after an earlier edit call on the same object.             *)

\* the lines of the texts edited twice: records of one path
SiblingLines == {<<" ", "x">>, <<" ", "y">>}

InitSecond ==
    /\ step_space = 1
    /\ \E text \in Texts(SiblingLines, MaxLines) : Constructed(text)

\* the calls that can leave one list object at several positions of self.cwp
EarlierCalls == {"add_after_lines", "add_before_lines", "replace_serial_lines",
                 "replace_line"}

\* a second call on the object, after an earlier call with multiple_match
\* has returned
CalledAfter(call, r) ==
    /\ raised = "none"
    /\ op.name \in EarlierCalls
    /\ op.multiple_match
    /\ op' = call
    /\ pre' = cwp
    /\ cwp' = r.c
    /\ raised' = r.exc
    /\ UNCHANGED <<config_text, step_space, ret>>

\* replace_line(old, new, regex_match, False, regex_backreference, replace_path)
\* as that second call
ReplaceLineAfter(old, new, regex_match, regex_backreference, replace_path) ==
    CalledAfter([name |-> "replace_line", lines |-> old, new |-> new,
                 regex_match |-> regex_match, multiple_match |-> FALSE,
                 regex_backreference |-> regex_backreference,
                 replace_path |-> replace_path],
                replace_line(cwp, old, new, step_space, regex_match, FALSE,
                             regex_backreference, replace_path))

NextSecond ==
    \/ \E a \in AddBlocks, t \in PlainLines, rm \in BOOLEAN :
           AddAfterLines(a, t, rm, TRUE)
    \/ \E a \in AddBlocks, t \in PlainLines, rm \in BOOLEAN :
           AddBeforeLines(a, t, rm, TRUE)
    \/ \E o \in PlainLines, n \in NewBlocks, rm \in BOOLEAN :
           ReplaceSerialLines(o, n, rm, TRUE)
    \/ \E o \in PlainLines, n \in NewLines, rm, br, rp \in BOOLEAN :
           ReplaceLine(o, n, rm, TRUE, br, rp)
    \/ \E o \in PlainLines, n \in NewLines, rm, br, rp \in BOOLEAN :
           ReplaceLineAfter(o, n, rm, br, rp)

SpecSecond == InitSecond /\ [][NextSecond]_vars

----------------------------------------------------------------------------
(* The restart-from-zero while loops, one pass at a time.                  *)
(*                                                                         *)
(* op is here the activation record of the call: its arguments, the lists  *)
(* parsed before the loop (delete_list, replace_list with its list         *)
(* objects, start_with, end_with), the loop variable cont and the position *)
(* pc of the call: at the while test, in the loop body, after the loop,    *)
(* returned.  The literal branch of the between calls has no cont: there   *)
(* the cont of a pass tells whether the while test is reached again.       *)

LoopCalls == {"delete_serial_lines", "delete_between_lines",
              "replace_serial_lines", "replace_between_lines"}

\* one run of the body of "while cont:" in delete_serial_lines
delete_serial_pass(c, delete_list, regex_match, multiple_match) ==
    LET hits == SerialHits(c, delete_list, regex_match)
    IN  IF hits = {} THEN [c |-> c, cont |-> FALSE, exc |-> "none"]
        ELSE [c    |-> Del(c, First(hits), Len(delete_list)),
              cont |-> Rescan(multiple_match),
              exc  |-> "none"]

\* one run of the body of "while cont:" in replace_serial_lines
replace_serial_pass(c, delete_list, replace_list, regex_match, multiple_match) ==
    LET hits == SerialHits(c, delete_list, regex_match)
    IN  IF hits = {} THEN [c |-> c, cont |-> FALSE, exc |-> "none"]
        ELSE [c    |-> Splice(c, First(hits), Len(delete_list), replace_list),
              cont |-> multiple_match,
              exc  |-> "none"]

\* one run of the loop body of delete_between_lines (replace_list empty) or
\* replace_between_lines: the regex "while cont:" or the literal
\* "while start_with in self.cwp:"
between_pass(c, start_with, end_with, replace_list, regex_match, multiple_match) ==
    IF regex_match
    THEN LET start_line == StartLine(c, start_with, end_with)
             end_line   == EndLine(c, start_line, end_with)
         IN  IF end_line = 0 THEN [c |-> c, cont |-> FALSE, exc |-> "none"]
             ELSE [c    |-> Splice(c, start_line, end_line - start_line + 1,
                                   replace_list),
                   cont |-> multiple_match,
                   exc  |-> "none"]
    ELSE LET fi_line == IndexFrom(c, 1, start_with)
             ei_line == IndexFrom(c, fi_line, end_with)
         IN  IF fi_line = 0 THEN [c |-> c, cont |-> FALSE, exc |-> "none"]
             ELSE IF ei_line = 0 THEN [c |-> c, cont |-> FALSE, exc |-> "ValueError"]
             ELSE [c    |-> Splice(c, fi_line, ei_line - fi_line + 1, replace_list),
                   cont |-> multiple_match,
                   exc  |-> "none"]

\* the body of the loop of the call in progress
loop_pass(c, call) ==
    IF call.name = "delete_serial_lines"
    THEN delete_serial_pass(c, call.delete_list, call.regex_match,
                            call.multiple_match)
    ELSE IF call.name = "replace_serial_lines"
    THEN replace_serial_pass(c, call.delete_list, call.replace_list,
                             call.regex_match, call.multiple_match)
    ELSE between_pass(c, call.start_with, call.end_with, call.replace_list,
                      call.regex_match, call.multiple_match)

\* the records the process has room for; with the blocks below a pass adds
\* at most one record, and a loop that ends never holds more than one
\* record above the text's lines
MaxRecords == MaxLines + 2

\* the pattern blocks of a loop call: one or two plain lines
PlainBlocks == PlainLines \cup (Texts(PlainLines, 2) \ {<<>>})

InitLoop ==
    /\ step_space = 1
    /\ \E text \in Texts(SiblingLines, MaxLines) : Constructed(text)

\* the call is entered: the texts are parsed and cont = True
Begin(call) ==
    /\ Ready
    /\ op' = call
    /\ pre' = cwp
    /\ UNCHANGED <<config_text, step_space, cwp, ret, raised>>

BeginDeleteSerial(text, regex_match, multiple_match) ==
    Begin([name |-> "delete_serial_lines",
           delete_list |-> ec_text_convert(text, step_space),
           replace_list |-> <<>>, start_with |-> <<>>, end_with |-> <<>>,
           regex_match |-> regex_match, multiple_match |-> multiple_match,
           cont |-> TRUE, pc |-> "while"])

BeginReplaceSerial(old, new, regex_match, multiple_match) ==
    Begin([name |-> "replace_serial_lines",
           delete_list |-> ec_text_convert(old, step_space),
           replace_list |-> Objects(ec_text_convert(new, step_space), MaxObj(cwp)),
           start_with |-> <<>>, end_with |-> <<>>,
           regex_match |-> regex_match, multiple_match |-> multiple_match,
           cont |-> TRUE, pc |-> "while"])

BeginDeleteBetween(start, end, regex_match, multiple_match) ==
    Begin([name |-> "delete_between_lines",
           delete_list |-> <<>>, replace_list |-> <<>>,
           start_with |-> ec_text_convert(start, step_space)[1],
           end_with |-> ec_text_convert(end, step_space)[1],
           regex_match |-> regex_match, multiple_match |-> multiple_match,
           cont |-> TRUE, pc |-> "while"])

BeginReplaceBetween(start, end, new, regex_match, multiple_match) ==
    Begin([name |-> "replace_between_lines",
           delete_list |-> <<>>,
           replace_list |-> Objects(ec_text_convert(new, step_space), MaxObj(cwp)),
           start_with |-> ec_text_convert(start, step_space)[1],
           end_with |-> ec_text_convert(end, step_space)[1],
           regex_match |-> regex_match, multiple_match |-> multiple_match,
           cont |-> TRUE, pc |-> "while"])

\* the loop of the call tests a condition of its own ("while start_with in
\* self.cwp", the literal branch of the between calls) and not cont
TestsMembership(call) ==
    call.name \in {"delete_between_lines", "replace_between_lines"}
        /\ ~call.regex_match

\* the while condition of the call in progress
loop_condition(c, call) ==
    IF TestsMembership(call)
    THEN IndexFrom(c, 1, call.start_with) # 0
    ELSE call.cont

\* the call stands at the test of its while loop (pc = "while") or at the
\* start of the loop body (pc = "body")
At(pc) ==
    /\ op.name \in LoopCalls
    /\ raised = "none"
    /\ op.pc = pc

\* the while condition is evaluated: the body is entered (its first
\* statement is "cont = False") or the loop is left
WhileTest ==
    /\ At("while")
    /\ op' = IF loop_condition(cwp, op)
             THEN [op EXCEPT !.pc = "body",
                             !.cont = IF TestsMembership(op) THEN @ ELSE FALSE]
             ELSE [op EXCEPT !.pc = "tail"]
    /\ UNCHANGED <<config_text, step_space, cwp, pre, ret, raised>>

\* the body runs: the scan, and the splice at its first hit, after which
\* cont is set (or the literal between loop breaks); a list the process has
\* no room for ends the call with MemoryError
Pass ==
    /\ At("body")
    /\ LET r == loop_pass(cwp, op)
       IN  IF Len(r.c) > MaxRecords
           THEN /\ raised' = "MemoryError"
                /\ UNCHANGED <<cwp, op>>
           ELSE /\ cwp' = r.c
                /\ raised' = r.exc
                /\ op' = IF TestsMembership(op)
                         THEN [op EXCEPT !.pc = IF r.cont THEN "while" ELSE "tail"]
                         ELSE [op EXCEPT !.pc = "while", !.cont = r.cont]
    /\ UNCHANGED <<config_text, step_space, pre, ret>>

\* the loop has been left: "if regex_match: self.cwp_update()" in the
\* replace calls, and the call returns
Return ==
    /\ At("tail")
    /\ cwp' = IF op.name \in {"replace_serial_lines", "replace_between_lines"}
                 /\ op.regex_match
              THEN cwp_update(cwp)
              ELSE cwp
    /\ op' = [op EXCEPT !.pc = "returned"]
    /\ UNCHANGED <<config_text, step_space, pre, ret, raised>>

NextLoop ==
    \/ \E t \in PlainBlocks, rm, mm \in BOOLEAN : BeginDeleteSerial(t, rm, mm)
    \/ \E o \in PlainBlocks, n \in NewBlocks, rm, mm \in BOOLEAN :
           BeginReplaceSerial(o, n, rm, mm)
    \/ \E s, e \in PlainLines, rm, mm \in BOOLEAN : BeginDeleteBetween(s, e, rm, mm)
    \/ \E s, e \in PlainLines, n \in NewBlocks, rm, mm \in BOOLEAN :
           BeginReplaceBetween(s, e, n, rm, mm)
    \/ WhileTest
    \/ Pass
    \/ Return

\* a call that is inside its loop keeps running: the interpreter evaluates
\* the loop condition and runs the body
SpecLoop == InitLoop /\ [][NextLoop]_vars /\ WF_vars(WhileTest) /\ WF_vars(Pass)

----------------------------------------------------------------------------
(* Properties of the construction.                                         *)

\* the lines of the text that are not blank (empty or whitespace only)
NonBlankLines(text) == SelectSeq(splitlines(text), LAMBDA l : strip(l) # <<>>)

\* the nearest preceding non-comment line of strictly smaller indentation,
\* 0 when there is none
Parent(lines, i) ==
    LET above == {j \in 1..(i - 1) :
                     ~IsComment(lines[j]) /\ Width(lines[j]) < Width(lines[i])}
    IN  IF above = {} THEN 0 ELSE CHOOSE j \in above : \A k \in above : k <= j

\* the tokens of the ancestors of line i, outermost first
RECURSIVE AncestorChain(_, _)
AncestorChain(lines, i) ==
    IF Parent(lines, i) = 0 THEN <<>>
    ELSE Append(AncestorChain(lines, Parent(lines, i)),
                strip(lines[Parent(lines, i)]))

\* C1: for every tab-free text, build gives each non-comment record the path
\* of its true ancestor chain (nearest preceding shallower non-comment line,
\* then that line's own, up to a top-level line), with no stale ancestor.
C1_TrueAncestorPath ==
    (raised = "none" /\ op.name \in {"none", "cwp_update"}) =>
        \A i \in 1..Len(cwp) :
            ~IsComment(cwp[i].value) =>
                cwp[i].path = join(AncestorChain(NonBlankLines(config_text), i), sep)

\* C2 as stated: serialize(build(T)) has exactly one line per non-blank line
\* of T, in order, each equal to the source line.
C2_RoundTripExact ==
    op.name = "cwp_to_text" => splitlines(ret) = NonBlankLines(config_text)

\* C2 amended: serialize(build(T)) has exactly one line per non-blank line of
\* T, in order, each equal to the source line without its trailing
\* whitespace, leading whitespace kept; no line is dropped, duplicated or
\* reordered, comment lines included.
C2_RoundTrip ==
    op.name = "cwp_to_text" =>
        LET src == NonBlankLines(config_text)
            out == splitlines(ret)
        IN  /\ Len(out) = Len(src)
            /\ \A i \in 1..Len(src) :
                  /\ out[i] = rstrip(src[i])
                  /\ Width(out[i]) = Width(src[i])

\* a round trip of a text with a dropped blank line, a comment, an indented
\* line and a line that ends in whitespace
C2_Witness ==
    /\ op.name = "cwp_to_text"
    /\ Len(splitlines(config_text)) > Len(pre)
    /\ \E i \in 1..Len(pre) : IsComment(pre[i].value)
    /\ \E i \in 1..Len(pre) : Width(pre[i].value) > 0
    /\ \E l \in {NonBlankLines(config_text)[i] : i \in 1..Len(pre)} : rstrip(l) # l

\* the tokens of a path
PathTokens(path) == IF path = <<>> THEN <<>> ELSE split(path, sep)

\* every token of record i's path is the text of an earlier non-comment line
\* narrower than the record, the tokens in ascending order of those widths
WidthOrdered(lines, i, path) ==
    LET toks == PathTokens(path)
        m    == Len(toks)
    IN  \E f \in [1..m -> 1..(i - 1)] :
            \A k \in 1..m :
                /\ ~IsComment(lines[f[k]])
                /\ strip(lines[f[k]]) = toks[k]
                /\ Width(lines[f[k]]) < Width(lines[i])
                /\ k < m => Width(lines[f[k]]) < Width(lines[f[k + 1]])

\* C8 as stated: for every record of build's output, comment records
\* included, every path token comes from a line of strictly smaller
\* indentation than the record's, in ascending order of widths.
C8_IndentationAllRecords ==
    (raised = "none" /\ op.name \in {"none", "cwp_update"}) =>
        \A i \in 1..Len(cwp) :
            WidthOrdered(NonBlankLines(config_text), i, cwp[i].path)

\* C8 amended: the same for every non-comment record; a comment record
\* inherits the path last computed (or the line before it) whatever its own
\* indentation.
C8_Indentation ==
    (raised = "none" /\ op.name \in {"none", "cwp_update"}) =>
        \A i \in 1..Len(cwp) :
            ~IsComment(cwp[i].value) =>
                WidthOrdered(NonBlankLines(config_text), i, cwp[i].path)

\* a non-comment record two levels deep, after a comment record
C8_Witness ==
    /\ raised = "none" /\ op.name \in {"none", "cwp_update"}
    /\ \E i \in 1..Len(cwp) :
          /\ ~IsComment(cwp[i].value)
          /\ Len(PathTokens(cwp[i].path)) = 2
          /\ \E j \in 1..(i - 1) : IsComment(cwp[j].value)

\* the non-comment lines nest by the uniform step: the first is at width 0,
\* every width is a multiple of step and at most one step deeper than the
\* non-comment line before it
Uniform(lines, step) ==
    LET code == SelectSeq(lines, LAMBDA l : ~IsComment(l))
    IN  \A i \in 1..Len(code) :
            /\ Width(code[i]) % step = 0
            /\ Width(code[i]) <= (IF i = 1 THEN 0 ELSE Width(code[i - 1]) + step)

\* C7: for a text nested by the uniform step and every non-comment record r
\* of build(text), at any depth including top level, encodeLine of
\* path(r) + separator + stripped value(r) returns exactly r.
C7_EncodeAgreesWithBuild ==
    (/\ op.name = "ec_text_convert"
     /\ Uniform(NonBlankLines(config_text), step_space)
     /\ ~IsComment(pre[op.k].value))
        => ret = <<PV(pre[op.k])>>

----------------------------------------------------------------------------
(* Properties of the edit calls.                                           *)

\* the parsed block of the call's pattern text
Parsed(text) == ec_text_convert(text, step_space)

\* the window match contract: N consecutive records at i, each matching its
\* pattern line (by re.match of path and value, or by equality)
WindowAt(c, i, list, regex_match) ==
    /\ i + Len(list) - 1 <= Len(c)
    /\ \A k \in 1..Len(list) :
          IF regex_match THEN RecMatch(list[k], c[i + k - 1])
          ELSE PV(c[i + k - 1]) = list[k]

Windows(c, list, regex_match) ==
    {i \in 1..Len(c) : WindowAt(c, i, list, regex_match)}

SerialCalls == {"delete_serial_lines", "add_after_lines", "add_before_lines",
                "replace_serial_lines"}
BetweenCalls == {"delete_between_lines", "replace_between_lines"}

\* the sequence holds nothing the call could act on: no window for a serial
\* call, no start record followed (at or after it) by an end record for a
\* between call, no matching record for replace_line
NoMatch(c, call) ==
    IF call.name \in SerialCalls
    THEN Windows(c, Parsed(call.lines), call.regex_match) = {}
    ELSE IF call.name \in BetweenCalls
    THEN LET s == Parsed(call.start)[1]
             e == Parsed(call.end)[1]
         IN  IF call.regex_match
             THEN ~\E i, j \in 1..Len(c) :
                      i <= j /\ RecMatch(s, c[i]) /\ RecMatch(e, c[j])
             ELSE ~\E i, j \in 1..Len(c) :
                      i <= j /\ PV(c[i]) = s /\ PV(c[j]) = e
    ELSE LET o == Parsed(call.lines)[1]
         IN  ~\E i \in 1..Len(c) :
                  \/ (call.regex_backreference \/ call.regex_match)
                        /\ RecMatch(o, c[i])
                  \/ ~call.regex_backreference /\ PV(c[i]) = o

\* C3: a locate-based edit call that finds no qualifying window, record or
\* start..end range (also when a start record is present and no end record
\* follows it) returns without raising and leaves every record's path and
\* value unchanged, in literal and in regex mode, with or without
\* multiple_match.
C3_NoMatchIsNoOp ==
    (/\ op.name \in SerialCalls \cup BetweenCalls \cup {"replace_line"}
     /\ NoMatch(pre, op))
        => /\ raised = "none"
           /\ Recs(cwp) = Recs(pre)

\* C10: a window match spans N records: cwp_serial_check returns true, and
\* the serial edit calls in regex mode act, only where N consecutive records
\* exist that each match their pattern line; fewer than N records before the
\* end of the sequence never count as a match.
C10_WindowSpansN ==
    /\ (op.name = "cwp_serial_check" /\ ret = TRUE) =>
          LET list  == PathAndValueList(op.lines)
              lines == CwpTextNoSpace(pre)
          IN  \E i \in 1..Len(lines) :
                  /\ i + Len(list) - 1 <= Len(lines)
                  /\ \A k \in 1..Len(list) : ReMatch(list[k], lines[i + k - 1])
    /\ (op.name \in SerialCalls /\ op.regex_match /\ Recs(cwp) # Recs(pre)) =>
          Windows(pre, Parsed(op.lines), TRUE) # {}

\* a is b with some records left out, the others in their order
RECURSIVE IsSubsequence(_, _)
IsSubsequence(a, b) ==
    IF a = <<>> THEN TRUE
    ELSE IF b = <<>> THEN FALSE
    ELSE IF Head(a) = Head(b) THEN IsSubsequence(Tail(a), Tail(b))
    ELSE IsSubsequence(a, Tail(b))

\* C4: delete_serial_lines in literal mode with multiple_match returns with
\* no run of N consecutive records equal to the parsed block left (also none
\* that an earlier deletion joined), the remaining records being the
\* original ones in their original order.
C4_DeleteSerialAll ==
    (/\ op.name = "delete_serial_lines"
     /\ ~op.regex_match
     /\ op.multiple_match)
        => /\ raised = "none"
           /\ Windows(cwp, Parsed(op.lines), FALSE) = {}
           /\ IsSubsequence(cwp, pre)

\* the block occurred once, and deleting it joined a second occurrence that
\* was deleted too
C4_Witness ==
    /\ op.name = "delete_serial_lines"
    /\ ~op.regex_match
    /\ op.multiple_match
    /\ Len(Parsed(op.lines)) = 2
    /\ Cardinality(Windows(pre, Parsed(op.lines), FALSE)) = 1
    /\ Len(cwp) = Len(pre) - 4

\* C5: delete_serial_lines without multiple_match leaves the sequence as it
\* was or removes exactly one contiguous run, the lowest-index window that
\* matches the block; every other record keeps path, value and order.
C5_DeleteSerialOne ==
    (/\ op.name = "delete_serial_lines"
     /\ ~op.multiple_match)
        => LET list == Parsed(op.lines)
               w    == Windows(pre, list, op.regex_match)
           IN  /\ raised = "none"
               /\ cwp = IF w = {} THEN pre ELSE Del(pre, First(w), Len(list))

\* c with one copy of block inserted before each 0-based position of points
RECURSIVE InsertedAt(_, _, _, _)
InsertedAt(c, j, points, block) ==
    (IF j \in points THEN block ELSE <<>>)
    \o (IF j >= Len(c) THEN <<>>
        ELSE <<c[j + 1]>> \o InsertedAt(c, j + 1, points, block))

\* C6: add_after_lines / add_before_lines insert one copy of the add block
\* at the insertion point of every anchor window of the pre-edit sequence
\* (window end + 1, resp. window start), of the first window only without
\* multiple_match; the original records keep their order and the length
\* grows by the number of windows times the add-block length.
C6_AddAtEveryAnchor ==
    op.name \in {"add_after_lines", "add_before_lines"}
        => LET list   == Parsed(op.lines)
               block  == Parsed(op.add)
               w      == Windows(pre, list, op.regex_match)
               used   == IF op.multiple_match \/ w = {} THEN w ELSE {First(w)}
               points == IF op.name = "add_after_lines"
                         THEN {i - 1 + Len(list) : i \in used}
                         ELSE {i - 1 : i \in used}
           IN  /\ raised = "none"
               /\ Recs(cwp) = InsertedAt(Recs(pre), 0, points, block)
               /\ Len(cwp) = Len(pre) + Cardinality(points) * Len(block)

\* the first start match and the first end match at or after it (0: none)
FirstStart(c, start_with) ==
    LET s == {i \in 1..Len(c) : RecMatch(start_with, c[i])}
    IN  IF s = {} THEN 0 ELSE First(s)

FirstEnd(c, start_with, end_with) ==
    LET e == {j \in 1..Len(c) : /\ FirstStart(c, start_with) # 0
                                /\ j >= FirstStart(c, start_with)
                                /\ RecMatch(end_with, c[j])}
    IN  IF e = {} THEN 0 ELSE First(e)

\* the most recent start match at or before position j
LastStartBefore(c, start_with, j) ==
    LET s == {i \in 1..j : RecMatch(start_with, c[i])}
    IN  CHOOSE i \in s : \A k \in s : k <= i

\* C9 as stated: the range delete_between_lines deletes in regex mode begins
\* at the most recent start match before the first end match that follows a
\* start, so earlier start matches stay.
C9_LastStartWins ==
    (/\ op.name = "delete_between_lines"
     /\ op.regex_match
     /\ ~op.multiple_match)
        => LET s == Parsed(op.start)[1]
               e == Parsed(op.end)[1]
               j == FirstEnd(pre, s, e)
           IN  j # 0 =>
                 cwp = Del(pre, LastStartBefore(pre, s, j),
                           j - LastStartBefore(pre, s, j) + 1)

\* C9 amended: the range begins at the first start match of the sequence
\* and ends at the first end match at or after it; later start matches
\* before that end are deleted with the range.  Without a range nothing
\* changes; under multiple_match no start match followed by an end match is
\* left and the remaining records keep their order.
C9_FirstStartWins ==
    (/\ op.name = "delete_between_lines"
     /\ op.regex_match)
        => LET s == Parsed(op.start)[1]
               e == Parsed(op.end)[1]
               i == FirstStart(pre, s)
               j == FirstEnd(pre, s, e)
           IN  /\ raised = "none"
               /\ j = 0 => cwp = pre
               /\ (j # 0 /\ ~op.multiple_match) => cwp = Del(pre, i, j - i + 1)
               /\ (j # 0 /\ op.multiple_match) =>
                     /\ FirstEnd(cwp, s, e) = 0
                     /\ IsSubsequence(cwp, Del(pre, i, j - i + 1))

\* two start matches precede the first end match, and the range from the
\* first of them was deleted
C9_Witness ==
    /\ op.name = "delete_between_lines"
    /\ op.regex_match
    /\ ~op.multiple_match
    /\ LET s == Parsed(op.start)[1]
           e == Parsed(op.end)[1]
           j == FirstEnd(pre, s, e)
       IN  /\ j # 0
           /\ LastStartBefore(pre, s, j) > FirstStart(pre, s)
           /\ ~RecMatch(e, pre[FirstStart(pre, s)])
           /\ Len(cwp) < Len(pre) - 1

----------------------------------------------------------------------------
(* Properties of _get_between_lines.                                       *)

\* the lines of a result between its leading and its trailing newline
ResultLines(result) ==
    IF result = <<>> THEN <<>> ELSE Tail(splitlines(result))

\* the start-matching lines before line j (1-based), and the last of them
StartsBefore(lines, start_line, j) ==
    {i \in 1..(j - 1) : ReMatch(start_line, lines[i])}

LastOf(S) == CHOOSE x \in S : \A y \in S : y <= x

\* the lines matching end_line that come after a start-matching line
EndsAfterStart(lines, start_line, end_line) ==
    {j \in 1..Len(lines) : /\ ReMatch(end_line, lines[j])
                           /\ StartsBefore(lines, start_line, j) # {}}

\* C11: _get_between_lines returns the bounded region whenever one exists:
\* if a line matching the start pattern is followed by a later line matching
\* the end pattern, the result is exactly the lines from the last
\* start-matching line before that end line through the end line, also when
\* the start-matching line is the first line of the text; the result is
\* empty only when no start match is followed by an end match.
C11_BoundedRegion ==
    op.name = "get_between_lines" =>
        LET lines == splitlines(op.text)
            ends  == EndsAfterStart(lines, op.start_line, op.end_line)
        IN  IF ends = {} THEN ret = <<>>
            ELSE \E j \in ends :
                     ResultLines(ret) =
                         SubSeq(lines,
                                LastOf(StartsBefore(lines, op.start_line, j)), j)

----------------------------------------------------------------------------
(* Properties of replace_line on an edited object.                         *)

\* the positions replace_line's scan matches: both fields by re.match under
\* regex_backreference or regex_match, or the record equal to the old one
LineMatches(c, call) ==
    LET o == Parsed(call.lines)[1]
    IN  {i \in 1..Len(c) :
            \/ (call.regex_backreference \/ call.regex_match) /\ RecMatch(o, c[i])
            \/ ~call.regex_backreference /\ PV(c[i]) = o}

\* the positions whose path or value differ between two sequences
Changed(before, after) ==
    {k \in 1..Len(before) : PV(after[k]) # PV(before[k])}

\* C12: replace_line without multiple_match changes at most one record,
\* whatever edit call came before it: only the first matching position is
\* rewritten, and every other record, duplicates of it inserted by an earlier
\* add_after_lines / add_before_lines / replace_serial_lines / replace_line
\* call with multiple_match included, keeps its path and value.
C12_ReplaceLineOne ==
    (op.name = "replace_line" /\ ~op.multiple_match)
        => /\ raised = "none"
           /\ Len(cwp) = Len(pre)
           /\ Cardinality(Changed(pre, cwp)) <= 1
           /\ \A k \in Changed(pre, cwp) :
                 /\ LineMatches(pre, op) # {}
                 /\ k = First(LineMatches(pre, op))

----------------------------------------------------------------------------
(* Properties of the restart-from-zero loops.                              *)

\* the while loop of the call has been left, by its condition, by a break
\* or by raising
Ended ==
    /\ op.name \in LoopCalls
    /\ (op.pc \in {"tail", "returned"} \/ raised # "none")

\* C13: the restart-from-zero loops terminate: replace_serial_lines and
\* replace_between_lines with multiple_match end for every record sequence
\* and every old / new block, also when the replacement block contains a
\* window (or a start..end pair) that matches the old pattern, and so do
\* delete_serial_lines and delete_between_lines with multiple_match.
C13_LoopsTerminate ==
    (op.name \in LoopCalls /\ op.multiple_match) ~> Ended

====
